---- MODULE Spec2Model ----
(***************************************************************************)
(* Model of AspirePythonDemo/PythonApi/main.py: the POST /analyze handler  *)
(* analyze_data and the GET /generate-sample/{count} handler               *)
(* generate_sample_data.                                                   *)
(*                                                                         *)
(* Python floats are binary floating point numbers: every arithmetic       *)
(* operation returns the exact result rounded to the nearest representable *)
(* number, ties to even.  The model keeps that arithmetic, with a          *)
(* significand of Precision bits (IEEE double: 53) and an unbounded        *)
(* exponent, so overflow to infinity and NaN are outside the model.        *)
(* A float is <<m, e>>, standing for m * 2^e, with m odd or <<0, 0>>.      *)
(***************************************************************************)
EXTENDS Integers, Sequences, FiniteSets, TLC

\* Bits of a float's significand.
Precision == 8

----------------------------------------------------------------------------
(* Integer helpers                                                         *)

Abs(x) == IF x < 0 THEN -x ELSE x

Sign(x) == IF x < 0 THEN -1 ELSE IF x = 0 THEN 0 ELSE 1

RECURSIVE Pow2(_)
Pow2(k) == IF k <= 0 THEN 1 ELSE 2 * Pow2(k - 1)

\* Number of bits of a natural number: BitLen(0) = 0, BitLen(5) = 3.
RECURSIVE BitLen(_)
BitLen(x) == IF x <= 0 THEN 0 ELSE 1 + BitLen(x \div 2)

\* p / q for p >= 0, q > 0, rounded to the nearest integer, ties to even.
RoundHalfEven(p, q) ==
    LET f == p \div q
        r == p % q
    IN  IF 2 * r < q THEN f
        ELSE IF 2 * r > q THEN f + 1
        ELSE IF f % 2 = 0 THEN f ELSE f + 1

\* Largest f in lo..hi with f * f <= x (lo * lo <= x is given).
RECURSIVE ISqrtIn(_, _, _)
ISqrtIn(x, lo, hi) ==
    IF lo >= hi THEN lo
    ELSE LET mid == (lo + hi + 1) \div 2
         IN  IF mid * mid <= x THEN ISqrtIn(x, mid, hi)
             ELSE ISqrtIn(x, lo, mid - 1)

----------------------------------------------------------------------------
(* Floats                                                                  *)

Zero == <<0, 0>>

\* The canonical pair of m * 2^e: m odd, or Zero.
RECURSIVE Norm(_, _)
Norm(m, e) ==
    IF m = 0 THEN Zero
    ELSE IF m % 2 = 0 THEN Norm(m \div 2, e + 1)
    ELSE <<m, e>>

\* The integer m * 2^e rounded to Precision significant bits.
Fl(m, e) ==
    LET k == BitLen(Abs(m)) - Precision
    IN  IF k <= 0 THEN Norm(m, e)
        ELSE Norm(Sign(m) * RoundHalfEven(Abs(m), Pow2(k)), e + k)

\* int -> float conversion
FromInt(i) == Fl(i, 0)

\* Position just above the leading bit of a nonzero float.
Top(a) == BitLen(Abs(a[1])) + a[2]

FNeg(a) == <<-a[1], a[2]>>

\* a + b
FAdd(a, b) ==
    IF a[1] = 0 THEN b
    ELSE IF b[1] = 0 THEN a
    ELSE IF Top(a) - Top(b) >= Precision + 2 THEN a
    ELSE IF Top(b) - Top(a) >= Precision + 2 THEN b
    ELSE LET e0 == IF a[2] < b[2] THEN a[2] ELSE b[2]
         IN  Fl(a[1] * Pow2(a[2] - e0) + b[1] * Pow2(b[2] - e0), e0)

\* a - b
FSub(a, b) == FAdd(a, FNeg(b))

\* a * b, and a ** 2 as a * a
FMul(a, b) == Fl(a[1] * b[1], a[2] + b[2])

\* (p * 2^e) / q for integers p and q > 0
FDivInt(p, e, q) ==
    IF p = 0 THEN Zero
    ELSE LET bp == BitLen(Abs(p))
             bq == BitLen(q)
             \* scale so that the quotient has Precision + 1 or + 2 bits
             s  == Precision + 2 + bq - bp
             num == IF s >= 0 THEN Abs(p) * Pow2(s) ELSE Abs(p)
             den == IF s >= 0 THEN q ELSE q * Pow2(-s)
             f   == num \div den
             k   == BitLen(f) - Precision
             \* den * 2^k divides the numerator into a Precision-bit number
         IN  Norm(Sign(p) * RoundHalfEven(num, den * Pow2(k)), e - s + k)

\* a / n for a float a and the int n > 0 (n converts to a float exactly)
FDiv(a, n) == FDivInt(a[1], a[2], n)

\* a ** 0.5 for a >= 0, taken as correctly rounded
FSqrt(a) ==
    IF a[1] <= 0 THEN Zero
    ELSE LET bm == BitLen(a[1])
             s0 == 2 * Precision + 2 - bm
             \* the scaled exponent has to be even
             s  == IF (a[2] - s0) % 2 = 0 THEN s0 ELSE s0 + 1
             x  == a[1] * Pow2(s)
             f  == ISqrtIn(x, 0, Pow2(Precision + 2))
             \* f has Precision + 1 or + 2 bits; round it with a sticky bit
             k  == BitLen(f) - Precision
             q  == Pow2(k)
             g  == f \div q
             r  == f % q
             exact == f * f = x
             up == \/ 2 * r > q
                   \/ 2 * r = q /\ ~exact
                   \/ 2 * r = q /\ exact /\ g % 2 = 1
         IN  Norm(IF up THEN g + 1 ELSE g, (a[2] - s) \div 2 + k)

\* a < b
FLt(a, b) ==
    LET sa == Sign(a[1])
        sb == Sign(b[1])
    IN  IF sa # sb THEN sa < sb
        ELSE IF sa = 0 THEN FALSE
        ELSE IF Top(a) # Top(b)
             THEN IF sa > 0 THEN Top(a) < Top(b) ELSE Top(a) > Top(b)
        ELSE LET e0 == IF a[2] < b[2] THEN a[2] ELSE b[2]
             IN  a[1] * Pow2(a[2] - e0) < b[1] * Pow2(b[2] - e0)

FLe(a, b) == a = b \/ FLt(a, b)

\* round(a, 2): the exact value of a rounded to a multiple of 1/100, ties to
\* even, and the float nearest to that decimal.
Round2(a) ==
    IF a[2] >= 0 THEN a
    ELSE IF -a[2] > 24 THEN Zero
    ELSE LET k == RoundHalfEven(100 * Abs(a[1]), Pow2(-a[2]))
         IN  FDivInt(Sign(a[1]) * k, 0, 100)

FAbs(a) == <<Abs(a[1]), a[2]>>

----------------------------------------------------------------------------
(* Python builtins used by analyze_data                                    *)

\* The builtin sum of floats adds left to right up to CPython 3.11 and keeps
\* a Neumaier compensation term from CPython 3.12 on.
SumImpls == {"naive", "compensated"}

RECURSIVE SumNaive(_, _)
SumNaive(s, k) == IF k = 0 THEN Zero ELSE FAdd(SumNaive(s, k - 1), s[k])

\* <<f_result, c>> after the first k items
RECURSIVE SumCompensated(_, _)
SumCompensated(s, k) ==
    IF k = 0 THEN <<Zero, Zero>>
    ELSE LET prev == SumCompensated(s, k - 1)
             f == prev[1]
             c == prev[2]
             x == s[k]
             t == FAdd(f, x)
             d == IF FLe(FAbs(x), FAbs(f))
                  THEN FAdd(FSub(f, t), x)
                  ELSE FAdd(FSub(x, t), f)
         IN  <<t, FAdd(c, d)>>

\* sum(s)
PySum(s, impl) ==
    IF impl = "naive" THEN SumNaive(s, Len(s))
    ELSE LET r == SumCompensated(s, Len(s))
         IN  IF r[2] # Zero THEN FAdd(r[1], r[2]) ELSE r[1]

\* s with x put before the first element greater than x
RECURSIVE Insert(_, _)
Insert(s, x) ==
    IF s = <<>> THEN <<x>>
    ELSE IF FLt(x, Head(s)) THEN <<x>> \o s
    ELSE <<Head(s)>> \o Insert(Tail(s), x)

\* the list is used as it came
SortedSkipped(s) == s

\* sorted(s): a new list, ascending
RECURSIVE Sorted(_)
Sorted(s) == IF s = <<>> THEN <<>> ELSE Insert(Sorted(SubSeq(s, 1, Len(s) - 1)), s[Len(s)])

\* min(s) for non-empty s: the first smallest item
RECURSIVE PyMin(_)
PyMin(s) ==
    IF Len(s) = 1 THEN s[1]
    ELSE LET m == PyMin(SubSeq(s, 1, Len(s) - 1))
         IN  IF FLt(s[Len(s)], m) THEN s[Len(s)] ELSE m

\* max(s) for non-empty s: the first largest item
RECURSIVE PyMax(_)
PyMax(s) ==
    IF Len(s) = 1 THEN s[1]
    ELSE LET m == PyMax(SubSeq(s, 1, Len(s) - 1))
         IN  IF FLt(m, s[Len(s)]) THEN s[Len(s)] ELSE m

\* values.sort() in place of sorted(values)
ArgAfterSortInPlace(values) == Sorted(values)

\* What sorted(values) leaves in values: sorted builds a new list.
ArgAfterSorted(values) == values

----------------------------------------------------------------------------
(* The statements of analyze_data                                          *)

\* [point.value for point in data]
ValuesOf(data) == [i \in 1..Len(data) |-> data[i].value]

\* AnalysisResult(mean=0, median=0, std_dev=0, min=0, max=0, count=0)
EmptyResult ==
    [mean |-> FromInt(0), median |-> FromInt(0), std_dev |-> FromInt(0),
     min |-> FromInt(0), max |-> FromInt(0), count |-> 0]

\* if len(values) <= 1
IsEmptyOrSingle(values) == Len(values) <= 1

\* if not values
IsEmpty(values) == Len(values) = 0

\* mean = sum(values) / (n + 1)
MeanOverMore(values, n, impl) == FDiv(PySum(values, impl), n + 1)

\* mean = sum(values) / n
Mean(values, n, impl) == FDiv(PySum(values, impl), n)

\* median = sorted_values[n//2] whatever n is
MedianUpper(sorted_values, n) == sorted_values[(n \div 2) + 1]

\* the median of the sorted list; Python indexes from 0, TLA+ from 1
Median(sorted_values, n) ==
    IF n % 2 = 0
    THEN FDiv(FAdd(sorted_values[(n \div 2 - 1) + 1], sorted_values[(n \div 2) + 1]), 2)
    ELSE sorted_values[(n \div 2) + 1]

\* (x - mean) ** 2 for x in values
SquaredDeviations(values, mean) ==
    [i \in 1..Len(values) |->
        LET d == FSub(values[i], mean) IN FMul(d, d)]

\* the sample variance: the divisor is n - 1 (n for a single value)
VarianceSample(values, mean, n, impl) ==
    FDiv(PySum(SquaredDeviations(values, mean), impl), IF n > 1 THEN n - 1 ELSE n)

\* variance = sum((x - mean) ** 2 for x in values) / n
Variance(values, mean, n, impl) ==
    FDiv(PySum(SquaredDeviations(values, mean), impl), n)

\* std_dev = variance ** 0.5
StdDev(variance) == FSqrt(variance)

\* min and max rounded like the other fields
ResultAllRounded(values, n, mean, median, std_dev) ==
    [mean |-> Round2(mean), median |-> Round2(median),
     std_dev |-> Round2(std_dev),
     min |-> Round2(PyMin(values)), max |-> Round2(PyMax(values)), count |-> n]

\* The returned AnalysisResult of the general branch.
Result(values, n, mean, median, std_dev) ==
    [mean |-> Round2(mean), median |-> Round2(median),
     std_dev |-> Round2(std_dev),
     min |-> PyMin(values), max |-> PyMax(values), count |-> n]

\* analyze_data run from its first statement to its return, on its own.
analyze_data(data, impl) ==
    LET values == ValuesOf(data)
    IN  IF IsEmpty(values) THEN EmptyResult
        ELSE LET sorted_values == Sorted(values)
                 n == Len(values)
                 mean == Mean(values, n, impl)
                 median == Median(sorted_values, n)
                 variance == Variance(values, mean, n, impl)
                 std_dev == StdDev(variance)
             IN  Result(values, n, mean, median, std_dev)

----------------------------------------------------------------------------
(* datetime and random, as generate_sample_data uses them                  *)

\* A datetime is [year, month, day, hour, minute, second, microsecond].
DateTime(y, mo, d, h, mi, sec, us) ==
    [year |-> y, month |-> mo, day |-> d, hour |-> h, minute |-> mi,
     second |-> sec, microsecond |-> us]

IsLeap(y) == y % 4 = 0 /\ (y % 100 # 0 \/ y % 400 = 0)

DaysInMonth(y, mo) ==
    IF mo = 2 THEN (IF IsLeap(y) THEN 29 ELSE 28)
    ELSE IF mo \in {4, 6, 9, 11} THEN 30 ELSE 31

\* days before the first day of month mo in a year that is not leap
DaysBeforeMonthCommon(mo) ==
    <<0, 31, 59, 90, 120, 151, 181, 212, 243, 273, 304, 334>>[mo]

DaysBeforeMonth(y, mo) ==
    DaysBeforeMonthCommon(mo) + (IF mo > 2 /\ IsLeap(y) THEN 1 ELSE 0)

DaysBeforeYear(y) ==
    (y - 1) * 365 + (y - 1) \div 4 - (y - 1) \div 100 + (y - 1) \div 400

\* date.toordinal(): 1 for 0001-01-01
ToOrdinal(y, mo, d) == DaysBeforeYear(y) + DaysBeforeMonth(y, mo) + d

\* date.fromordinal(n) as <<year, month, day>>
FromOrdinal(ord) ==
    LET n0   == ord - 1
        n400 == n0 \div 146097
        r400 == n0 % 146097
        n100 == r400 \div 36524
        r100 == r400 % 36524
        n4   == r100 \div 1461
        r4   == r100 % 1461
        n1   == r4 \div 365
        n    == r4 % 365
        year == n400 * 400 + 1 + n100 * 100 + n4 * 4 + n1
    IN  IF n1 = 4 \/ n100 = 4 THEN <<year - 1, 12, 31>>
        ELSE LET leapyear == n1 = 3 /\ (n4 # 24 \/ n100 = 3)
                 month0 == (n + 50) \div 32
                 prec0 == DaysBeforeMonthCommon(month0)
                          + (IF month0 > 2 /\ leapyear THEN 1 ELSE 0)
                 month == IF prec0 > n THEN month0 - 1 ELSE month0
                 prec == IF prec0 > n
                         THEN prec0 - (DaysInMonth(year, month0 - 1))
                         ELSE prec0
             IN  <<year, month, n - prec + 1>>

\* the seconds are taken off without borrowing from the day
MinusSecondsSameDay(dt, i) ==
    LET secs == dt.hour * 3600 + dt.minute * 60 + dt.second - i
        rem  == secs % 86400
    IN  DateTime(dt.year, dt.month, dt.day, rem \div 3600, (rem % 3600) \div 60,
                 rem % 60, dt.microsecond)

\* dt - timedelta(seconds=i)
MinusSeconds(dt, i) ==
    LET ord  == ToOrdinal(dt.year, dt.month, dt.day)
        secs == dt.hour * 3600 + dt.minute * 60 + dt.second - i
        days == ord + secs \div 86400
        rem  == secs % 86400
        ymd  == FromOrdinal(days)
    IN  DateTime(ymd[1], ymd[2], ymd[3], rem \div 3600, (rem % 3600) \div 60,
                 rem % 60, dt.microsecond)

\* dt.isoformat(): "YYYY-MM-DDTHH:MM:SS", and ".ffffff" only when the
\* microsecond is not 0.  The string is kept as the list of its zero-padded
\* number fields.
IsoFormat(dt) ==
    LET s == <<dt.year, dt.month, dt.day, dt.hour, dt.minute, dt.second>>
    IN  IF dt.microsecond = 0 THEN s ELSE Append(s, dt.microsecond)

\* random.random() returns k / 2^Precision for 0 <= k < 2^Precision.  A
\* stream <<a, b>> of the generator returns k = (a + i * b) % 2^Precision at
\* its i-th call.
PyRandom(stream, i) ==
    Fl((stream[1] + i * stream[2]) % Pow2(Precision), -Precision)

\* random.uniform(a, b), given the value r that random.random() returns
Uniform(a, b, r) == FAdd(a, FMul(FSub(b, a), r))

----------------------------------------------------------------------------
(* The statements of generate_sample_data                                  *)

\* the limit of line 101
Limit == 1000

\* the limit is left out
ClampForgotten(count) == count

\* if count > 1000: count = 1000
Clamp(count) == IF count > Limit THEN Limit ELSE count

\* range(count)
Range(count) == 0..(count - 1)

\* DataPoint(value=round(random.uniform(10, 100), 2),
\*           timestamp=(base_time - timedelta(seconds=i)).isoformat())
SamplePoint(base_time, stream, i) ==
    [value |-> Round2(Uniform(FromInt(10), FromInt(100), PyRandom(stream, i))),
     timestamp |-> IsoFormat(MinusSeconds(base_time, i))]

\* [DataPoint(...) for i in range(count)]
SampleData(base_time, stream, count) ==
    [k \in 1..Cardinality(Range(count)) |-> SamplePoint(base_time, stream, k - 1)]

\* {"data": data, "count": len(data)}
SampleResponse(data) == [data |-> data, count |-> Len(data)]

----------------------------------------------------------------------------
(* The service                                                             *)

\* Longest request body of the sequential specification, and of the
\* concurrent one.
MaxLen == 3
ConcMaxLen == 2

\* The requests that can be in flight at once.
Requests == {"r1", "r2"}

\* one set of variables for all calls, as module-level variables would be
FrameShared(r) == "r1"

\* The frame that holds the local variables of request r's call: every call
\* of analyze_data has its own.
FrameOf(r) == r

\* Local variables of a call that has not assigned them yet.
NoFrame ==
    [data |-> <<>>, values |-> <<>>, sorted_values |-> <<>>, n |-> 0,
     mean |-> Zero, median |-> Zero, variance |-> Zero, std_dev |-> Zero]

NoResponse == [count |-> -1]

SeqsUpTo(S, k) == UNION {[1..j -> S] : j \in 0..k}

\* Values the request bodies are made of: 0.125, 0.25, 1.0, 2^Precision (where
\* adding 1.0 is lost to rounding), its negative and 2^Precision - 2.
Eighth == <<1, -3>>
Quarter == <<1, -2>>
Big == <<1, Precision>>
Values ==
    {Eighth, Quarter, FromInt(1), Big, FNeg(Big), FromInt(Pow2(Precision) - 2)}

\* The timestamp of a posted point is any string; analyze_data never reads it.
PostedTimestamp == <<2024, 1, 1, 0, 0, 0>>

Point(v) == [value |-> v, timestamp |-> PostedTimestamp]

PointsOf(vs) == [i \in 1..Len(vs) |-> Point(vs[i])]

\* [5.0], [10.0, 20.0, 30.0] and [1.0, 2.0, 3.0, 4.0]
Examples ==
    {<<FromInt(5)>>, <<FromInt(10), FromInt(20), FromInt(30)>>,
     <<FromInt(1), FromInt(2), FromInt(3), FromInt(4)>>}

\* Request bodies of POST /analyze
Inputs == {PointsOf(vs) : vs \in SeqsUpTo(Values, MaxLen) \cup Examples}

ConcInputs == {PointsOf(vs) : vs \in SeqsUpTo({Eighth, FromInt(1)}, ConcMaxLen)}

\* Path parameters of GET /generate-sample/{count}
Counts == {-1, 0, 1, 3, Limit, Limit + 1, 2 * Limit}

\* Values of datetime.now()
Clock ==
    {DateTime(2024, 3, 1, 0, 0, 5, 0), DateTime(2023, 3, 1, 0, 10, 0, 250000),
     DateTime(2025, 1, 1, 0, 0, 0, 1), DateTime(2024, 6, 15, 12, 30, 45, 500000)}

\* Streams of the random generator
Streams == {<<0, 0>>, <<Pow2(Precision) - 1, 0>>, <<5, 37>>}

VARIABLES
    sum_impl,   \* the builtin sum of the interpreter that runs the service
    pc,         \* pc[r]: the statement request r's call of analyze_data is at
    sent,       \* sent[r]: the body request r was posted with
    frame,      \* frame[f]: the local variables of a call of analyze_data
    resp,       \* resp[r]: the AnalysisResult returned to request r
    gpc,        \* the statement the call of generate_sample_data is at
    asked,      \* the count the sample request was made with
    count,      \* generate_sample_data's count
    base_time,  \* generate_sample_data's base_time
    data,       \* generate_sample_data's data
    gresp       \* the response of generate_sample_data

vars == <<sum_impl, pc, sent, frame, resp, gpc, asked, count, base_time, data, gresp>>

avars == <<pc, sent, frame, resp>>
gvars == <<gpc, asked, count, base_time, data, gresp>>

NoTime == DateTime(1, 1, 1, 0, 0, 0, 0)

Init ==
    /\ sum_impl \in SumImpls
    /\ pc = [r \in Requests |-> "idle"]
    /\ sent = [r \in Requests |-> <<>>]
    /\ frame = [f \in Requests |-> NoFrame]
    /\ resp = [r \in Requests |-> NoResponse]
    /\ gpc = "idle"
    /\ asked = 0
    /\ count = 0
    /\ base_time = NoTime
    /\ data = <<>>
    /\ gresp = NoResponse

Local(r) == frame[FrameOf(r)]

\* request r's call goes to statement next with its local variables set to f
Step(r, next, f) ==
    /\ pc' = [pc EXCEPT ![r] = next]
    /\ frame' = [frame EXCEPT ![FrameOf(r)] = f]
    /\ UNCHANGED <<sum_impl, sent, resp, gvars>>

\* POST /analyze arrives with body d and analyze_data is called with it
PostAnalyze(r, d) ==
    /\ pc[r] = "idle"
    /\ pc' = [pc EXCEPT ![r] = "l65"]
    /\ sent' = [sent EXCEPT ![r] = d]
    /\ frame' = [frame EXCEPT ![FrameOf(r)] = [NoFrame EXCEPT !.data = d]]
    /\ UNCHANGED <<sum_impl, resp, gvars>>

\* values = [point.value for point in data]
L65(r) ==
    /\ pc[r] = "l65"
    /\ Step(r, "l67", [Local(r) EXCEPT !.values = ValuesOf(Local(r).data)])

\* if not values: return AnalysisResult(mean=0, ...)
L67(r) ==
    /\ pc[r] = "l67"
    /\ IF IsEmpty(Local(r).values)
       THEN /\ pc' = [pc EXCEPT ![r] = "done"]
            /\ resp' = [resp EXCEPT ![r] = EmptyResult]
            /\ UNCHANGED <<sum_impl, sent, frame, gvars>>
       ELSE Step(r, "l73", Local(r))

\* sorted_values = sorted(values)
L73(r) ==
    /\ pc[r] = "l73"
    /\ Step(r, "l74", [Local(r) EXCEPT !.sorted_values = Sorted(Local(r).values),
                                       !.values = ArgAfterSorted(Local(r).values)])

\* n = len(values)
L74(r) ==
    /\ pc[r] = "l74"
    /\ Step(r, "l75", [Local(r) EXCEPT !.n = Len(Local(r).values)])

\* mean = sum(values) / n
L75(r) ==
    /\ pc[r] = "l75"
    /\ Step(r, "l78", [Local(r) EXCEPT
                         !.mean = Mean(Local(r).values, Local(r).n, sum_impl)])

\* if n % 2 == 0: median = ... else: median = ...
L78(r) ==
    /\ pc[r] = "l78"
    /\ Step(r, "l84", [Local(r) EXCEPT
                         !.median = Median(Local(r).sorted_values, Local(r).n)])

\* variance = sum((x - mean) ** 2 for x in values) / n
L84(r) ==
    /\ pc[r] = "l84"
    /\ Step(r, "l85", [Local(r) EXCEPT
                         !.variance = Variance(Local(r).values, Local(r).mean,
                                               Local(r).n, sum_impl)])

\* std_dev = variance ** 0.5
L85(r) ==
    /\ pc[r] = "l85"
    /\ Step(r, "l87", [Local(r) EXCEPT !.std_dev = StdDev(Local(r).variance)])

\* return AnalysisResult(mean=round(mean, 2), ...)
L87(r) ==
    /\ pc[r] = "l87"
    /\ pc' = [pc EXCEPT ![r] = "done"]
    /\ resp' = [resp EXCEPT ![r] =
                  Result(Local(r).values, Local(r).n, Local(r).mean,
                         Local(r).median, Local(r).std_dev)]
    /\ UNCHANGED <<sum_impl, sent, frame, gvars>>

\* the response goes out and the call's frame is dropped
Respond(r) ==
    /\ pc[r] = "done"
    /\ pc' = [pc EXCEPT ![r] = "idle"]
    /\ sent' = [sent EXCEPT ![r] = <<>>]
    /\ frame' = [frame EXCEPT ![FrameOf(r)] = NoFrame]
    /\ resp' = [resp EXCEPT ![r] = NoResponse]
    /\ UNCHANGED <<sum_impl, gvars>>

\* GET /generate-sample/{c} arrives and generate_sample_data is called
GetGenerateSample(c) ==
    /\ gpc = "idle"
    /\ gpc' = "l100"
    /\ asked' = c
    /\ count' = c
    /\ UNCHANGED <<sum_impl, avars, base_time, data, gresp>>

\* if count > 1000: count = 1000
G100 ==
    /\ gpc = "l100"
    /\ gpc' = "l104"
    /\ count' = Clamp(count)
    /\ UNCHANGED <<sum_impl, avars, asked, base_time, data, gresp>>

\* base_time = datetime.now()
G104 ==
    /\ gpc = "l104"
    /\ gpc' = "l106"
    /\ base_time' \in Clock
    /\ UNCHANGED <<sum_impl, avars, asked, count, data, gresp>>

\* data = [DataPoint(...) for i in range(count)]
G106 ==
    /\ gpc = "l106"
    /\ gpc' = "l114"
    /\ \E stream \in Streams : data' = SampleData(base_time, stream, count)
    /\ UNCHANGED <<sum_impl, avars, asked, count, base_time, gresp>>

\* return {"data": data, "count": len(data)}
G114 ==
    /\ gpc = "l114"
    /\ gpc' = "done"
    /\ gresp' = SampleResponse(data)
    /\ UNCHANGED <<sum_impl, avars, asked, count, base_time, data>>

\* the response goes out and the call's frame is dropped
RespondSample ==
    /\ gpc = "done"
    /\ gpc' = "idle"
    /\ asked' = 0
    /\ count' = 0
    /\ base_time' = NoTime
    /\ data' = <<>>
    /\ gresp' = NoResponse
    /\ UNCHANGED <<sum_impl, avars>>

AnalyzeIdle == \A r \in Requests : pc[r] = "idle"

\* One client that waits for each response before its next request.
Post == \E d \in Inputs : gpc = "idle" /\ PostAnalyze("r1", d)
Get == \E c \in Counts : AnalyzeIdle /\ GetGenerateSample(c)

Next ==
    \/ Post
    \/ L65("r1")
    \/ L67("r1")
    \/ L73("r1")
    \/ L74("r1")
    \/ L75("r1")
    \/ L78("r1")
    \/ L84("r1")
    \/ L85("r1")
    \/ L87("r1")
    \/ Respond("r1")
    \/ Get
    \/ G100
    \/ G104
    \/ G106
    \/ G114
    \/ RespondSample

Spec == Init /\ [][Next]_vars

\* Two clients whose calls of analyze_data interleave statement by statement.
ConcPost == \E r \in Requests : \E d \in ConcInputs : PostAnalyze(r, d)
ConcL65 == \E r \in Requests : L65(r)
ConcL67 == \E r \in Requests : L67(r)
ConcL73 == \E r \in Requests : L73(r)
ConcL74 == \E r \in Requests : L74(r)
ConcL75 == \E r \in Requests : L75(r)
ConcL78 == \E r \in Requests : L78(r)
ConcL84 == \E r \in Requests : L84(r)
ConcL85 == \E r \in Requests : L85(r)
ConcL87 == \E r \in Requests : L87(r)
ConcRespond == \E r \in Requests : Respond(r)

NextConc ==
    \/ ConcPost
    \/ ConcL65
    \/ ConcL67
    \/ ConcL73
    \/ ConcL74
    \/ ConcL75
    \/ ConcL78
    \/ ConcL84
    \/ ConcL85
    \/ ConcL87
    \/ ConcRespond

SpecConc == Init /\ [][NextConc]_vars

----------------------------------------------------------------------------
(* Properties                                                              *)

\* the call of request r has returned a record for a non-empty body
Returned(r) == pc[r] = "done" /\ sent[r] # <<>>

Bijections(k) == {f \in [1..k -> 1..k] : \A i, j \in 1..k : f[i] = f[j] => i = j}

Permuted(s, f) == [i \in 1..Len(s) |-> s[f[i]]]

IsAscending(s) == \A i \in 1..(Len(s) - 1) : FLe(s[i], s[i + 1])

\* the arrangement of s in ascending order
AscendingOf(s) ==
    CHOOSE t \in {Permuted(s, f) : f \in Bijections(Len(s))} : IsAscending(t)

MinOf(a, b) == IF a < b THEN a ELSE b

RECURSIVE LeastExponent(_, _)
LeastExponent(s, k) ==
    IF k = 0 THEN 0 ELSE MinOf(s[k][2], LeastExponent(s, k - 1))

\* the exact sum of the first k floats of s, in units of 2^e0
RECURSIVE ExactSum(_, _, _)
ExactSum(s, k, e0) ==
    IF k = 0 THEN 0 ELSE ExactSum(s, k - 1, e0) + s[k][1] * Pow2(s[k][2] - e0)

\* the float f is the sum of the floats of s, with no rounding error
IsExactSum(s, f) ==
    LET e0 == MinOf(LeastExponent(s, Len(s)), f[2])
    IN  ExactSum(s, Len(s), e0) = f[1] * Pow2(f[2] - e0)

Within(lo, v, hi) == FLe(lo, v) /\ FLe(v, hi)

\* C1, as stated: every record returned for a non-empty body has
\* min <= mean <= max and min <= median <= max.
C1_MeanMedianWithinMinMax ==
    \A r \in Requests :
        Returned(r) =>
            /\ Within(resp[r].min, resp[r].mean, resp[r].max)
            /\ Within(resp[r].min, resp[r].median, resp[r].max)

\* each value is its own rounding to 2 decimals and sum(values) has no
\* rounding error
PlainValues(vs) ==
    /\ \A i \in 1..Len(vs) : Round2(vs[i]) = vs[i]
    /\ IsExactSum(vs, PySum(vs, sum_impl))

\* C1, amended: min <= mean <= max and min <= median <= max hold in the record
\* returned for a non-empty body when every value of the body is its own
\* rounding to 2 decimals and the float sum of the values is exact.
C1_WithinMinMaxForPlainValues ==
    \A r \in Requests :
        (Returned(r) /\ PlainValues(ValuesOf(sent[r]))) =>
            /\ Within(resp[r].min, resp[r].mean, resp[r].max)
            /\ Within(resp[r].min, resp[r].median, resp[r].max)

C1_Witness ==
    /\ Returned("r1")
    /\ PlainValues(ValuesOf(sent["r1"]))
    /\ Len(sent["r1"]) = 3
    /\ resp["r1"].mean # resp["r1"].median
    /\ Local("r1").mean # resp["r1"].mean

\* C2: the empty body gets the all-zero record, and a returned count of 0
\* comes only with the empty body and with every other field 0.
C2_EmptyInputAllZero ==
    \A r \in Requests :
        pc[r] = "done" =>
            /\ sent[r] = <<>> =>
                 resp[r] = [mean |-> Zero, median |-> Zero, std_dev |-> Zero,
                            min |-> Zero, max |-> Zero, count |-> 0]
            /\ resp[r].count = 0 =>
                 /\ sent[r] = <<>>
                 /\ resp[r].mean = Zero /\ resp[r].median = Zero
                 /\ resp[r].std_dev = Zero
                 /\ resp[r].min = Zero /\ resp[r].max = Zero

C2_Witness == pc["r1"] = "done" /\ sent["r1"] = <<>> /\ resp["r1"].count = 0

\* C3, as stated: the record returned for a body is the record analyze_data
\* returns for every permutation of that body.
C3_SameRecordForPermutations ==
    \A r \in Requests :
        Returned(r) =>
            \A f \in Bijections(Len(sent[r])) :
                analyze_data(Permuted(sent[r], f), sum_impl) = resp[r]

\* C3, amended: for every permutation of a body analyze_data returns the
\* same median, min, max and count as for the body.
C3_SameMedianMinMaxCount ==
    \A r \in Requests :
        Returned(r) =>
            \A f \in Bijections(Len(sent[r])) :
                LET values == ValuesOf(Permuted(sent[r], f))
                    n == Len(values)
                IN  /\ Round2(Median(Sorted(values), n)) = resp[r].median
                    /\ PyMin(values) = resp[r].min
                    /\ PyMax(values) = resp[r].max
                    /\ n = resp[r].count

C3_Witness ==
    /\ Returned("r1")
    /\ Len(sent["r1"]) = 3
    /\ ~IsAscending(ValuesOf(sent["r1"]))
    /\ \E f \in Bijections(3) :
           analyze_data(Permuted(sent["r1"], f), sum_impl).mean # resp["r1"].mean

\* C4: whatever the other request does meanwhile, a request gets the record
\* analyze_data returns for its own body when run alone.
C4_ResultOfOwnInput ==
    \A r \in Requests :
        pc[r] = "done" => resp[r] = analyze_data(sent[r], sum_impl)

C4_Witness ==
    /\ pc["r1"] = "done"
    /\ pc["r2"] \in {"l75", "l78", "l84", "l85", "l87"}
    /\ Len(sent["r1"]) = 2
    /\ Len(sent["r2"]) = 2
    /\ resp["r1"] # analyze_data(sent["r2"], sum_impl)

\* C5: from the call to the return, the body is the one that was posted and
\* values holds its values in the posted order.
C5_InputUnchanged ==
    \A r \in Requests :
        /\ pc[r] # "idle" => Local(r).data = sent[r]
        /\ pc[r] \notin {"idle", "l65"} =>
             Local(r).values = [i \in 1..Len(sent[r]) |-> sent[r][i].value]

C5_Witness ==
    /\ pc["r1"] = "done"
    /\ Len(sent["r1"]) = 3
    /\ ~IsAscending(ValuesOf(sent["r1"]))
    /\ Local("r1").sorted_values # Local("r1").values
    /\ IsAscending(Local("r1").sorted_values)

\* C6: the returned median is the rounding to 2 decimals of the middle element
\* of the ascending values (odd count), or of the average of the two middle
\* elements, at zero-based indices count/2 - 1 and count/2 (even count).
C6_MedianOfSorted ==
    \A r \in Requests :
        Returned(r) =>
            LET s == AscendingOf(ValuesOf(sent[r]))
                k == Len(s)
                half == k \div 2
            IN  resp[r].median =
                    IF k % 2 = 1 THEN Round2(s[half + 1])
                    ELSE Round2(FDiv(FAdd(s[half], s[half + 1]), 2))

C6_Witness ==
    /\ Returned("r1")
    /\ Len(sent["r1"]) = 2
    /\ sent["r1"][1].value # sent["r1"][2].value
    /\ resp["r1"].median # sent["r1"][1].value
    /\ resp["r1"].median # sent["r1"][2].value

\* C7: the returned std_dev is the rounding to 2 decimals of the square root of
\* sum((x - mean)^2) / count, with mean = sum(values) / count not rounded; it
\* is 1.12 for [1.0, 2.0, 3.0, 4.0] and it is never negative.
C7_PopulationStdDev ==
    \A r \in Requests :
        Returned(r) =>
            LET vs == ValuesOf(sent[r])
                k == Len(vs)
                m == FDiv(PySum(vs, sum_impl), k)
                sq == [i \in 1..k |-> FMul(FSub(vs[i], m), FSub(vs[i], m))]
            IN  /\ resp[r].std_dev = Round2(FSqrt(FDiv(PySum(sq, sum_impl), k)))
                /\ FLe(Zero, resp[r].std_dev)
                /\ vs = <<FromInt(1), FromInt(2), FromInt(3), FromInt(4)>> =>
                       resp[r].std_dev = FDivInt(112, 0, 100)

C7_Witness ==
    /\ Returned("r1")
    /\ ValuesOf(sent["r1"]) = <<FromInt(1), FromInt(2), FromInt(3), FromInt(4)>>
    /\ resp["r1"].std_dev = FDivInt(112, 0, 100)

\* C8: the returned min and max are the smallest and the largest value of the
\* body as posted, the first and the last of the ascending values, and the
\* returned count is the length of the body.
C8_MinMaxCountExact ==
    \A r \in Requests :
        Returned(r) =>
            LET vs == ValuesOf(sent[r])
                s == AscendingOf(vs)
            IN  /\ \E i \in 1..Len(vs) : vs[i] = resp[r].min
                /\ \E i \in 1..Len(vs) : vs[i] = resp[r].max
                /\ \A i \in 1..Len(vs) : Within(resp[r].min, vs[i], resp[r].max)
                /\ resp[r].min = s[1]
                /\ resp[r].max = s[Len(s)]
                /\ resp[r].count = Len(sent[r])

C8_Witness ==
    /\ Returned("r1")
    /\ Len(sent["r1"]) = 3
    /\ resp["r1"].min = Eighth
    /\ Round2(resp["r1"].min) # resp["r1"].min
    /\ resp["r1"].max # resp["r1"].min

\* C9: the response holds 1000 points for a count above 1000, count points for
\* 0 < count <= 1000 and none for count <= 0; its count field is the number of
\* points, and every value is in [10, 100].
C9_SampleSize ==
    gpc = "done" =>
        /\ asked > 1000 => Len(gresp.data) = 1000
        /\ (0 < asked /\ asked <= 1000) => Len(gresp.data) = asked
        /\ asked <= 0 => gresp.data = <<>>
        /\ gresp.count = Len(gresp.data)
        /\ \A i \in 1..Len(gresp.data) :
               Within(FromInt(10), gresp.data[i].value, FromInt(100))

C9_Witness ==
    /\ gpc = "done"
    /\ asked > 1000
    /\ gresp.count = 1000
    /\ gresp.data[1].value # gresp.data[2].value

\* the fields of an isoformat string, 0 for a microsecond that is left out
Micro(ts) == IF Len(ts) = 7 THEN ts[7] ELSE 0

\* seconds from timestamp b to timestamp a, microseconds apart
SecondsFrom(b, a) ==
    (ToOrdinal(a[1], a[2], a[3]) - ToOrdinal(b[1], b[2], b[3])) * 86400
    + (a[4] - b[4]) * 3600 + (a[5] - b[5]) * 60 + (a[6] - b[6])

\* C10: point i of a response carries the base time minus i seconds, so each
\* timestamp is 1 second before the one of the point before it.
C10_TimestampsStepBack ==
    gpc = "done" =>
        /\ \A i \in 1..Len(gresp.data) :
               /\ SecondsFrom(gresp.data[i].timestamp, IsoFormat(base_time)) = i - 1
               /\ Micro(gresp.data[i].timestamp) = base_time.microsecond
               /\ Len(gresp.data[i].timestamp) = Len(IsoFormat(base_time))
        /\ \A i \in 1..(Len(gresp.data) - 1) :
               SecondsFrom(gresp.data[i + 1].timestamp, gresp.data[i].timestamp) = 1

C10_Witness ==
    /\ gpc = "done"
    /\ Len(gresp.data) = 1000
    /\ gresp.data[1].timestamp = IsoFormat(base_time)
    /\ gresp.data[1000].timestamp[3] # gresp.data[1].timestamp[3]
    /\ gresp.data[1000].timestamp[1] # gresp.data[1].timestamp[1]
====
